---- MODULE Spec2Model ----
(***************************************************************************)
(* Title normalization engine of amg-player (amg/tag.py, amg/sanitize.py). *)
(*                                                                         *)
(* Strings are sequences of one-character strings.  A run of               *)
(* TitleNormalizer.cleanup is a state machine whose steps are the visits   *)
(* of the driver loop to one registry entry.                               *)
(***************************************************************************)
EXTENDS Integers, Sequences, FiniteSets, TLC

(***************************************************************************)
(* Characters (string.punctuation, string.whitespace, str.lower, ...)      *)
(***************************************************************************)
Punctuation ==
    {"!", "\"", "#", "$", "%", "&", "'", "(", ")", "*", "+", ",", "-", ".",
     "/", ":", ";", "<", "=", ">", "?", "@", "[", "\\", "]", "^", "_", "backtick",
     "{", "|", "}", "~"}

Whitespace == {" ", "\t", "\n", "\r", "\f"}

LowerLetters ==
    <<"a", "b", "c", "d", "e", "f", "g", "h", "i", "j", "k", "l", "m",
      "n", "o", "p", "q", "r", "s", "t", "u", "v", "w", "x", "y", "z">>

UpperLetters ==
    <<"A", "B", "C", "D", "E", "F", "G", "H", "I", "J", "K", "L", "M",
      "N", "O", "P", "Q", "R", "S", "T", "U", "V", "W", "X", "Y", "Z">>

Digits == {"0", "1", "2", "3", "4", "5", "6", "7", "8", "9"}

Range(s) == {s[k] : k \in DOMAIN s}

LowerSet == Range(LowerLetters)

UpperSet == Range(UpperLetters)

LowerOf == [c \in UpperSet |-> LowerLetters[CHOOSE k \in 1..26 : UpperLetters[k] = c]]

UpperOf == [c \in LowerSet |-> UpperLetters[CHOOSE k \in 1..26 : LowerLetters[k] = c]]

\* str.lower / str.upper / str.isupper on one character
LowerChar(c) == IF c \in UpperSet THEN LowerOf[c] ELSE c

UpperChar(c) == IF c \in LowerSet THEN UpperOf[c] ELSE c

\* str.lower()
Lower(s) == [k \in DOMAIN s |-> LowerChar(s[k])]

\* str.capitalize(): first character upper-cased, the rest lower-cased
Capitalize(s) == [k \in DOMAIN s |-> IF k = 1 THEN UpperChar(s[k]) ELSE LowerChar(s[k])]

\* the characters unidecode transliterates; every other character of the
\* model is ASCII and is its own transliteration
UnidecodeTable ==
    [c \in {"eacute", "eszett", "rsquo"} |->
        CASE c = "eacute" -> <<"e">>
          [] c = "eszett" -> <<"s", "s">>
          [] c = "rsquo" -> <<"'">>]

RECURSIVE Unidecode(_)
\* unidecode.unidecode_expect_ascii
Unidecode(s) ==
    IF s = <<>> THEN <<>>
    ELSE (IF Head(s) \in DOMAIN UnidecodeTable THEN UnidecodeTable[Head(s)] ELSE <<Head(s)>>)
         \o Unidecode(Tail(s))

(***************************************************************************)
(* str methods                                                             *)
(***************************************************************************)
\* s[a:b] with 0-based non-negative a, b (Python slice)
Slice(s, a, b) ==
    LET hi == IF b > Len(s) THEN Len(s) ELSE b
    IN IF a >= hi THEN <<>> ELSE SubSeq(s, a + 1, hi)

\* s[a:]
From(s, a) == Slice(s, a, Len(s))

\* s[:-n] for the length n of a removed literal; s[:-0] is s[:0], the empty string
DropLast(s, n) == IF n = 0 \/ n >= Len(s) THEN <<>> ELSE SubSeq(s, 1, Len(s) - n)

\* s.rstrip(chars)
RStrip(s, chars) ==
    LET keep == {k \in DOMAIN s : s[k] \notin chars}
    IN IF keep = {} THEN <<>>
       ELSE SubSeq(s, 1, CHOOSE k \in keep : \A j \in keep : j <= k)

\* s.lstrip(chars)
LStrip(s, chars) ==
    LET keep == {k \in DOMAIN s : s[k] \notin chars}
    IN IF keep = {} THEN <<>>
       ELSE SubSeq(s, CHOOSE k \in keep : \A j \in keep : k <= j, Len(s))

\* s.strip(chars)
Strip(s, chars) == LStrip(RStrip(s, chars), chars)

\* s.startswith(p)
StartsWith(s, p) == Len(p) <= Len(s) /\ SubSeq(s, 1, Len(p)) = p

\* s.endswith(p)
EndsWith(s, p) == Len(p) <= Len(s) /\ SubSeq(s, Len(s) - Len(p) + 1, Len(s)) = p

\* the 0-based positions at which p occurs in s
Occurrences(s, p) == {k \in 0..(Len(s) - Len(p)) : SubSeq(s, k + 1, k + Len(p)) = p}

\* p in s
Contains(s, p) == Occurrences(s, p) # {}

\* s.find(p): the first position, -1 when there is none
Find(s, p) ==
    IF Occurrences(s, p) = {} THEN -1
    ELSE CHOOSE k \in Occurrences(s, p) : \A j \in Occurrences(s, p) : k <= j

\* s.count(c) for one character
CountChar(s, c) == Cardinality({k \in DOMAIN s : s[k] = c})

\* s.translate(str.maketrans("", "", chars)): delete the characters
DeleteChars(s, chars) == SelectSeq(s, LAMBDA c : c \notin chars)

RECURSIVE Replace(_, _, _)
\* s.replace(old, new), old non-empty
Replace(s, old, new) ==
    IF Len(s) < Len(old) \/ old = <<>> THEN s
    ELSE IF StartsWith(s, old) THEN new \o Replace(From(s, Len(old)), old, new)
    ELSE <<Head(s)>> \o Replace(Tail(s), old, new)

RECURSIVE SplitWs(_)
\* s.split(): the maximal runs of non-whitespace characters
SplitWs(s) ==
    LET t == LStrip(s, Whitespace)
        ws == {k \in DOMAIN t : t[k] \in Whitespace}
        cut == IF ws = {} THEN Len(t) + 1 ELSE CHOOSE k \in ws : \A j \in ws : k <= j
    IN IF t = <<>> THEN <<>>
       ELSE <<SubSeq(t, 1, cut - 1)>> \o SplitWs(SubSeq(t, cut, Len(t)))

RECURSIVE Join(_, _)
\* sep.join(words)
Join(sep, words) ==
    IF words = <<>> THEN <<>>
    ELSE IF Len(words) = 1 THEN words[1]
    ELSE words[1] \o sep \o Join(sep, Tail(words))

(***************************************************************************)
(* amg/sanitize.py: normalize_tag_case                                     *)
(***************************************************************************)
\* the value of a call that raised (an IndexError, an AttributeError): one
\* pseudo-character no string of the program holds
Raised == <<"<raised>">>

TAG_LOWERCASE_WORDS ==
    {<<"a">>, <<"a", "n">>, <<"a", "n", "d">>,
     <<"a", "t">>, <<"d", "e", "l">>, <<"f", "o", "r">>,
     <<"f", "r", "o", "m">>, <<"i", "n">>, <<"o", "f">>,
     <<"o", "n">>, <<"o", "r">>, <<"o", "v", "e", "r">>,
     <<"t", "h", "e">>, <<"t", "o">>, <<"w", "i", "t", "h">>,
     <<"d", "e">>, <<"d", "e", "s">>, <<"d", "u">>,
     <<"l", "e">>, <<"l", "a">>, <<"l", "e", "s">>,
     <<"b", "y">>, <<"v", "s">>}

\* word.split(split_char, 1) without filter(None, parts): a word that starts
\* with the separator leaves an empty part
SplitOnceUnfiltered(word, split_char) ==
    LET k == Find(word, <<split_char>>)
    IN IF k = -1 THEN <<word>> ELSE <<Slice(word, 0, k), From(word, k)>>

\* word.split(split_char, 1) with the separator left out of both parts
SplitOnceDropping(word, split_char) ==
    LET k == Find(word, <<split_char>>)
    IN IF k = -1 THEN <<word>>
       ELSE SelectSeq(<<Slice(word, 0, k), From(word, k + 1)>>, LAMBDA part : part # <<>>)

\* word.split(split_char, 1), the separator put back in front of the second
\* part, the empty parts filtered out
SplitOnce(word, split_char) ==
    LET k == Find(word, <<split_char>>)
    IN IF k = -1 THEN <<word>>
       ELSE SelectSeq(<<Slice(word, 0, k), From(word, k)>>, LAMBDA part : part # <<>>)

RECURSIVE FlatMap(_, _)
FlatMap(Op(_), words) ==
    IF words = <<>> THEN <<>> ELSE Op(Head(words)) \o FlatMap(Op, Tail(words))

split_sep_char(s) ==
    FlatMap(LAMBDA w : SplitOnce(w, "-"), SplitOnce(s, "("))

split_words(s) == FlatMap(split_sep_char, SplitWs(s))

remove_punct(s) == SelectSeq(s, LAMBDA c : c \notin Punctuation)

\* roman_letters with a letter that is no Roman numeral
roman_letters_and_A == {"I", "V", "X", "L", "C", "D", "M", "A"}

roman_letters == {"I", "V", "X", "L", "C", "D", "M"}

punct_followed_all_uppercase == {".", "-"}

\* punct_followed_uppercase with the apostrophe left in
punct_followed_uppercase_all == Punctuation

punct_followed_uppercase == Punctuation \ {"'"}

\* the new word for old_words[i] (i counted from 0), prev_word the old word
\* before it (<<>> stands for None: no token is empty)
new_word(i, old_word, prev_word) ==
    LET w == IF \/ /\ prev_word # <<>>
                    /\ prev_word[Len(prev_word)] \in punct_followed_all_uppercase
                    /\ old_word[1] \in UpperSet
                 \/ "." \in Range(old_word)
             THEN old_word
             ELSE IF old_word[1] \in {"[", "(", "-"}
             THEN old_word
             ELSE IF Find(old_word, <<"'">>) = 1
             THEN IF i > 0
                  THEN <<LowerChar(old_word[1]), "'">> \o Capitalize(From(old_word, 2))
                  ELSE old_word
             ELSE IF /\ i # 0
                     /\ Lower(old_word) \in TAG_LOWERCASE_WORDS
                     /\ prev_word # <<>>
                     /\ prev_word[Len(prev_word)] \notin punct_followed_uppercase
             THEN Lower(old_word)
             ELSE IF \A c \in Range(remove_punct(old_word)) : c \in roman_letters
             THEN old_word
             ELSE Capitalize(old_word)
    IN Replace(w, <<"I", "'", "M">>, <<"I", "'", "m">>)

RECURSIVE join_words(_, _)
\* the join loop: a word that starts with "-" (and is not "-") follows the
\* previous one without a space
join_words(new_words, first) ==
    IF new_words = <<>> THEN <<>>
    ELSE LET w == Head(new_words)
         IN (IF first \/ (StartsWith(w, <<"-">>) /\ w # <<"-">>) THEN w ELSE <<" ">> \o w)
            \o join_words(Tail(new_words), FALSE)

normalize_tag_case(s) ==
    LET old_words == split_words(s)
        new_words == [k \in DOMAIN old_words |->
                         new_word(k - 1, old_words[k], IF k = 1 THEN <<>> ELSE old_words[k - 1])]
    IN IF \E k \in DOMAIN old_words : old_words[k] = <<>>
       THEN Raised  \* old_word[0] of an empty token: IndexError
       ELSE join_words(new_words, TRUE)

(***************************************************************************)
(* amg/tag.py: TitleCleanerBase                                            *)
(***************************************************************************)
\* an absent album (None)
None == <<"<None>">>

RCLEAN_CHARS == (Punctuation \cup Whitespace) \ {"!", "?", ")", "-", "]"}

LCLEAN_CHARS == (Punctuation \cup Whitespace) \ {"("}

\* Remove garbage at right of string.
rclean(s) ==
    LET r == RStrip(s, RCLEAN_CHARS)
    IN IF EndsWith(r, <<" ", "-">>) THEN RStrip(DropLast(r, 2), RCLEAN_CHARS) ELSE r

\* Remove garbage at left of string.
lclean(s) ==
    LET r == LStrip(s, LCLEAN_CHARS)
        c == LStrip(Unidecode(LStrip(r, LCLEAN_CHARS)), LCLEAN_CHARS)
    IN IF c # r THEN c ELSE r

\* the body of rnorm; None has no rstrip: AttributeError
rnorm_wrapped(s) ==
    IF s = None THEN Raised
    ELSE Lower(RStrip(Unidecode(RStrip(s, Punctuation)), Punctuation))

\* the body of lnorm
lnorm_wrapped(s) ==
    IF s = None THEN Raised
    ELSE Lower(LStrip(Unidecode(LStrip(s, Punctuation)), Punctuation))

\* functools.lru_cache around rnorm: the key is the argument tuple (self, s).
\* cx is the context of a call: the two caches and the cleaner object
rnorm(cx, s) ==
    IF <<cx.self, s>> \in DOMAIN cx.rnorm_cache THEN cx.rnorm_cache[<<cx.self, s>>]
    ELSE rnorm_wrapped(s)

\* functools.lru_cache around lnorm
lnorm(cx, s) ==
    IF <<cx.self, s>> \in DOMAIN cx.lnorm_cache THEN cx.lnorm_cache[<<cx.self, s>>]
    ELSE lnorm_wrapped(s)

\* Return True if start of string s is similar to pattern; sep is a set of
\* characters, empty for sep=None
startslike(cx, s, pattern, sep) ==
    LET ns == lnorm(cx, s)
        np == rnorm(cx, pattern)
        cut == From(ns, Len(np))
    IN StartsWith(ns, np) /\ (sep = {} \/ cut = <<>> \/ cut[1] \in sep)

\* Return True if end of string s is similar to pattern.
endslike(cx, s, pattern) == EndsWith(rnorm(cx, s), rnorm(cx, pattern))

\* Remove string suffix.
rmsuffix(s, e) == DropLast(RStrip(s, Punctuation), Len(Unidecode(e)))

\* Remove string prefix.
rmprefix(s, e) == From(LStrip(s, Punctuation), Len(Unidecode(e)))

(***************************************************************************)
(* SimplePrefixCleaner, SimpleSuffixCleaner                                *)
(***************************************************************************)
SimplePrefixCleaner_cleanup(cx, title, prefix) ==
    IF startslike(cx, title, prefix, Punctuation \cup Whitespace)
    THEN lclean(rmprefix(title, prefix))
    ELSE title

SimpleSuffixCleaner_cleanup(cx, title, suffix) ==
    IF endslike(cx, title, suffix)
    THEN LET new_title == rclean(rmsuffix(title, suffix))
         IN IF Lower(new_title) # <<"t", "h", "e">> THEN new_title ELSE title
    ELSE title

(***************************************************************************)
(* ArtistCleaner                                                           *)
(***************************************************************************)
\* string literals of the cleaners
BAND == <<" ", "b", "a", "n", "d">>

AND == <<"a", "n", "d">>

BY_ == <<"b", "y", " ">>

TAKEN_FROM == <<"t", "a", "k", "e", "n", " ", "f", "r", "o", "m">>

FROM_THE_ALBUM == <<"f", "r", "o", "m", " ", "t", "h", "e", " ", "a", "l", "b", "u", "m">>

FROM_ == <<"f", "r", "o", "m">>

RECURSIVE unique_everseen(_, _)
\* more_itertools.unique_everseen: the first occurrence of each element
unique_everseen(items, seen) ==
    IF items = <<>> THEN <<>>
    ELSE IF Head(items) \in seen THEN unique_everseen(Tail(items), seen)
    ELSE <<Head(items)>> \o unique_everseen(Tail(items), seen \cup {Head(items)})

artist_variants(artist) ==
    unique_everseen(
        <<artist \o BAND,
          artist,
          Replace(artist, <<" ">>, <<>>),
          Replace(artist, AND, <<"&">>),
          Replace(artist, <<"&">>, AND),
          Replace(artist, <<",", " ">>, <<" ">> \o AND \o <<" ">>),
          Replace(artist, <<" ">> \o AND \o <<" ">>, <<",", " ">>),
          Replace(artist, <<"rsquo">>, <<>>)>>,
        {})

\* the strings the loop of ArtistCleaner.cleanup tries, in order; the first
\* one ("by <artist>") is paired with True by zip_longest, the others with
\* the fill value False
artist_forms(artist) == <<BY_ \o artist>> \o artist_variants(artist)

RECURSIVE ArtistCleaner_loopPrefixOnly(_, _, _, _, _)
\* the for loop with the first form taken as a prefix-only form
ArtistCleaner_loopPrefixOnly(cx, title, forms, k, obj) ==
    IF k > Len(forms) THEN [title |-> title, obj |-> obj, tried |-> Len(forms)]
    ELSE LET form == forms[k]
             prefix_only == (k = 1)
         IN IF (~obj.prefix_removed) /\ startslike(cx, title, form, {})
            THEN [title |-> SimplePrefixCleaner_cleanup(cx, title, form),
                  obj |-> [obj EXCEPT !.prefix_removed = TRUE], tried |-> k]
            ELSE IF (~prefix_only) /\ (~obj.suffix_removed) /\ endslike(cx, title, form)
            THEN [title |-> SimpleSuffixCleaner_cleanup(cx, title, form),
                  obj |-> [obj EXCEPT !.suffix_removed = TRUE], tried |-> k]
            ELSE ArtistCleaner_loopPrefixOnly(cx, title, forms, k + 1, obj)

RECURSIVE ArtistCleaner_loop(_, _, _, _, _)
\* the for loop from its k-th form on; obj holds the object's two flags and
\* tried counts the forms the loop compared the title with
ArtistCleaner_loop(cx, title, forms, k, obj) ==
    IF k > Len(forms) THEN [title |-> title, obj |-> obj, tried |-> Len(forms)]
    ELSE LET form == forms[k]
             suffix_only == (k = 1)
         IN IF (~suffix_only) /\ (~obj.prefix_removed) /\ startslike(cx, title, form, {})
            THEN [title |-> SimplePrefixCleaner_cleanup(cx, title, form),
                  obj |-> [obj EXCEPT !.prefix_removed = TRUE], tried |-> k]
            ELSE IF (~obj.suffix_removed) /\ endslike(cx, title, form)
            THEN [title |-> SimpleSuffixCleaner_cleanup(cx, title, form),
                  obj |-> [obj EXCEPT !.suffix_removed = TRUE], tried |-> k]
            ELSE ArtistCleaner_loop(cx, title, forms, k + 1, obj)

\* ArtistCleaner.cleanup: the returned title and the object's fields after it
ArtistCleaner_cleanup(cx, title, artist, obj) ==
    ArtistCleaner_loop(cx, title, artist_forms(artist), 1, obj)

\* ArtistCleaner.doKeep
ArtistCleaner_doKeep(obj) == ~obj.suffix_removed

(***************************************************************************)
(* AlbumCleaner                                                            *)
(***************************************************************************)
ALBUM_CONNECTIVES == <<TAKEN_FROM, FROM_THE_ALBUM, FROM_>>

RECURSIVE AlbumCleaner_connectives(_, _, _)
\* the loop over ("taken from", "from the album", "from") from the k-th on
AlbumCleaner_connectives(cx, title, k) ==
    IF k > Len(ALBUM_CONNECTIVES) THEN title
    ELSE IF endslike(cx, title, ALBUM_CONNECTIVES[k])
    THEN LET new_title == SimpleSuffixCleaner_cleanup(cx, title, ALBUM_CONNECTIVES[k])
         IN IF new_title # <<>> THEN new_title
            ELSE AlbumCleaner_connectives(cx, title, k + 1)
    ELSE AlbumCleaner_connectives(cx, title, k + 1)

\* AlbumCleaner.cleanup; startslike evaluates rnorm(album) first of all that
\* touches the album, and with album None that call raises
AlbumCleaner_cleanup(cx, title, album) ==
    IF rnorm(cx, album) = Raised THEN Raised
    ELSE IF startslike(cx, title, album, {})
    THEN SimplePrefixCleaner_cleanup(cx, title, album)
    ELSE IF endslike(cx, title, album)
    THEN AlbumCleaner_connectives(cx, SimpleSuffixCleaner_cleanup(cx, title, album), 1)
    ELSE title

(***************************************************************************)
(* StartParenthesesCleaner, PairedCharCleaner                              *)
(***************************************************************************)
StartParenthesesCleaner_cleanup(title) ==
    LET closing_pos == Find(title, <<")">>)
        \* title[1:closing_pos]; with closing_pos = -1 it is title[1:-1]
        inner == IF closing_pos = -1 THEN Slice(title, 1, Len(title) - 1)
                 ELSE Slice(title, 1, closing_pos)
    IN IF StartsWith(title, <<"(">>) /\ closing_pos # Len(title) - 1 /\ Len(inner) > 1
       THEN lclean(From(title, closing_pos + 1))
       ELSE title

\* one (c1, c2), only_at_edges entry of char_pairs applied to the title
PairedChar_fix(title, c1, c2, only_at_edges) ==
    IF only_at_edges
    THEN IF EndsWith(title, <<c2>>) /\ c1 \notin Range(DropLast(title, 1))
         THEN DropLast(title, 1)
         ELSE IF StartsWith(title, <<c1>>) /\ c2 \notin Range(From(title, 1))
         THEN From(title, 1)
         ELSE title
    ELSE IF c1 # c2
    THEN IF CountChar(title, c1) + CountChar(title, c2) = 1
         THEN DeleteChars(title, {c1, c2})
         ELSE title
    ELSE IF CountChar(title, c1) = 1 THEN DeleteChars(title, {c1}) ELSE title

PairedCharCleaner_cleanup(title) ==
    LET t1 == PairedChar_fix(title, "(", ")", FALSE)
        t2 == PairedChar_fix(t1, "\"", "\"", FALSE)
        t3 == PairedChar_fix(t2, "'", "'", TRUE)
    IN IF StartsWith(t3, <<"(">>) /\ EndsWith(t3, <<")">>)
       THEN Slice(t3, 1, Len(t3) - 1)
       ELSE t3

(***************************************************************************)
(* The regular expressions of the registered Regex*Cleaner objects, each   *)
(* as the search re.compile(regex, re.IGNORECASE).search(s) performs:      *)
(* the 0-based start (or end) of the leftmost match, -1 when none.         *)
(***************************************************************************)
MUSIC_TAIL == <<" ", "m", "u", "s", "i", "c">>

RECORDS == <<"r", "e", "c", "o", "r", "d", "s">>

Min(S) == CHOOSE k \in S : \A j \in S : k <= j

WordChars == LowerSet \cup UpperSet \cup Digits \cup {"_"}

\* r"(#[\w]+ ?)+": the start of the match
hashtag_search(s) ==
    LET starts == {k \in 0..(Len(s) - 2) : s[k + 1] = "#" /\ s[k + 2] \in WordChars}
    IN IF starts = {} THEN -1 ELSE Min(starts)

\* r"[\[\( ][a-z]+ music$": the start of the match
music_search(s) ==
    LET l == Lower(s)
        e == Len(s) - Len(MUSIC_TAIL)  \* the 0-based position of " music"
        starts == {k \in 0..(e - 2) :
                      /\ l[k + 1] \in {"[", "(", " "}
                      /\ \A j \in (k + 2)..e : l[j] \in LowerSet}
    IN IF EndsWith(l, MUSIC_TAIL) /\ starts # {} THEN Min(starts) ELSE -1

\* the characters of the range [ -.] (space to full stop)
TrackSepChars == {" ", "!", "\"", "#", "$", "%", "&", "'", "(", ")", "*", "+", ",", "-", "."}

\* "^[0-9]+[ -.]+": the end of the match
tracknum_search(s) ==
    LET nd == Len(s) - Len(LStrip(s, Digits))
        rest == From(s, nd)
        ns == Len(rest) - Len(LStrip(rest, TrackSepChars))
    IN IF nd >= 1 /\ ns >= 1 THEN nd + ns ELSE -1

RecordsClass == LowerSet \cup Digits \cup {",", "/", " "}

\* r"([|\)\(\[]|on)[0-9a-z,/ ]+" + record_word + "$": the start of the match
records_search(s, record_word) ==
    LET l == Lower(s)
        e == Len(s) - Len(record_word)  \* the 0-based position of record_word
        filled(a) == a < e /\ \A j \in (a + 1)..e : l[j] \in RecordsClass
        starts == {k \in 0..(e - 2) :
                      \/ l[k + 1] \in {"|", ")", "(", "["} /\ filled(k + 1)
                      \/ l[k + 1] = "o" /\ l[k + 2] = "n" /\ filled(k + 2)}
    IN IF EndsWith(l, record_word) /\ starts # {} THEN Min(starts) ELSE -1

\* regex.search(s) of the cleaner registered under the name id
regex_search(id, s) ==
    CASE id = "hashtag" -> hashtag_search(s)
      [] id = "music" -> music_search(s)
      [] id = "tracknum" -> tracknum_search(s)
      [] id = "records" -> records_search(s, RECORDS)

(***************************************************************************)
(* RegexCleaner, RegexSuffixCleaner, RegexPrefixCleaner,                   *)
(* RecordsSuffixCleaner.  A registry entry e is a record: cls the class,   *)
(* id the regular expression or function, arg the bound arguments,         *)
(* contains and suffixes the guards, the two flags, obj the object.        *)
(***************************************************************************)
\* RegexCleaner.doSkip
RegexCleaner_doSkip(e, title) ==
    IF e.contains # <<>>
    THEN ~\E k \in DOMAIN e.contains : Contains(Lower(title), e.contains[k])
    ELSE FALSE

\* RegexSuffixCleaner.doSkip
RegexSuffixCleaner_doSkip(cx, e, title) ==
    IF e.suffixes # <<>>
    THEN ~\E k \in DOMAIN e.suffixes : endslike(cx, title, e.suffixes[k])
    ELSE RegexCleaner_doSkip(e, title)

\* RegexSuffixCleaner.cleanup
RegexSuffixCleaner_cleanup(e, title) ==
    LET start == regex_search(e.id, RStrip(title, Punctuation))
    IN IF start # -1 THEN rclean(Slice(title, 0, start)) ELSE title

\* RegexPrefixCleaner.cleanup
RegexPrefixCleaner_cleanup(e, title) ==
    LET end == regex_search(e.id, title)
    IN IF end # -1 THEN lclean(From(title, end)) ELSE title

\* RecordsSuffixCleaner.cleanup
RecordsSuffixCleaner_cleanup(cx, e, title) ==
    LET start == regex_search(e.id, RStrip(title, Punctuation))
    IN IF start # -1 THEN rclean(Slice(title, 0, start))
       ELSE LET t == SimpleSuffixCleaner_cleanup(cx, title, e.arg)
                words == SplitWs(t)
            IN rclean(Join(<<" ">>, SubSeq(words, 1, Len(words) - 1)))

(***************************************************************************)
(* TitleNormalizer.__init__: the registry                                  *)
(***************************************************************************)
OFFICIAL == <<"o", "f", "f", "i", "c", "i", "a", "l">>

VIDEO == <<"v", "i", "d", "e", "o">>

SONG == <<"s", "o", "n", "g">>

HD == <<"h", "d">>

MUSIC == <<"m", "u", "s", "i", "c">>

HASH == <<"#">>

Entry(cls, id, arg, contains, suffixes, execute_once, remove_if_skipped, obj) ==
    [cls |-> cls, id |-> id, arg |-> arg, contains |-> contains, suffixes |-> suffixes,
     execute_once |-> execute_once, remove_if_skipped |-> remove_if_skipped, obj |-> obj]

\* TitleCleanerBase.__init__ without remove_if_skipped: it defaults to execute_once
Once(cls, id, arg, contains, suffixes, obj) ==
    Entry(cls, id, arg, contains, suffixes, TRUE, TRUE, obj)

Persistent(cls, id, arg, contains, suffixes, obj) ==
    Entry(cls, id, arg, contains, suffixes, FALSE, FALSE, obj)

DigitChars == <<"0", "1", "2", "3", "4", "5", "6", "7", "8", "9">>

RECURSIVE Str(_)
\* str(y) of a non-negative integer
Str(n) == IF n < 10 THEN <<DigitChars[n + 1]>> ELSE Str(n \div 10) \o <<DigitChars[(n % 10) + 1]>>

\* the year of the first generated expression: range(2016, year + 1)
FIRST_YEAR == 2016

\* The word tables of the expression catalog, cut down to the words the
\* titles of the model are made of (an expression with another word matches
\* no title of the model).
words1 == {<<>>, OFFICIAL}

words2 == {<<>>}

words3 == {VIDEO, SONG}

idioms == {HD}

\* " ".join((w1, rsep.join((w2, w3)).strip())).strip()
expression(w1, w2, w3, rsep) ==
    Strip(w1 \o <<" ">> \o Strip(w2 \o rsep \o w3, Whitespace), Whitespace)

\* the set expressions before it is sorted
expressions(year) ==
    {expression(x[1], x[2], x[3], x[4]) :
        x \in {y \in words1 \X words2 \X words3 \X {<<" ">>, <<"-">>, <<>>} :
                  y[3] # y[2] /\ (y[1] # <<>> \/ y[2] # <<>>)}}
    \cup {w3 \in words3 : \E w1 \in words1, w2 \in words2 : w3 # w2 /\ w1 = <<>> /\ w2 = <<>>}
    \cup idioms
    \cup {Str(y) : y \in FIRST_YEAR..year}

RECURSIVE sorted_longest_first(_)
\* sorted(expressions, key=len, reverse=True); expressions of one length
\* keep the iteration order of the set, which is any order
sorted_longest_first(S) ==
    IF S = {} THEN <<>>
    ELSE LET m == CHOOSE x \in S : \A y \in S : Len(y) <= Len(x)
         IN <<m>> \o sorted_longest_first(S \ {m})

\* expressions_list after expressions_list.remove("song")
expressions_list(year) ==
    SelectSeq(sorted_longest_first(expressions(year)), LAMBDA x : x # SONG)

\* The registry TitleNormalizer(artist, album) registers, in registration
\* order, in the year the constructor reads from the clock.  Of the
\* catalogued regular expressions the model registers four, one of each
\* kind of guard.
TitleNormalizer_init(artist, album, year) ==
    <<Once("FunctionCleaner", "collapse", <<>>, <<>>, <<>>, "collapse"),
      Once("RegexSuffixCleaner", "hashtag", <<>>, <<HASH>>, <<>>, "hashtag"),
      Once("RegexSuffixCleaner", "music", <<>>, <<>>, <<MUSIC>>, "music"),
      Persistent("RegexPrefixCleaner", "tracknum", <<>>, <<>>, <<>>, "tracknum"),
      Persistent("RecordsSuffixCleaner", "records", RECORDS, <<>>, <<RECORDS>>, "records")>>
    \o [k \in DOMAIN expressions_list(year) |->
           Persistent("SimpleSuffixCleaner", "", expressions_list(year)[k], <<>>, <<>>,
                      "suffix_cleaner")]
    \o [k \in DOMAIN expressions_list(year) |->
           Persistent("SimplePrefixCleaner", "", expressions_list(year)[k], <<>>, <<>>,
                      "prefix_cleaner")]
    \o <<Persistent("ArtistCleaner", "", artist, <<>>, <<>>, "artist"),
         Once("StartParenthesesCleaner", "", <<>>, <<>>, <<>>, "start_parentheses"),
         Once("AlbumCleaner", "", album, <<>>, <<>>, "album"),
         Once("PairedCharCleaner", "", <<>>, <<>>, <<>>, "paired_char"),
         Once("FunctionCleaner", "strip_dash", <<>>, <<>>, <<>>, "strip_dash"),
         Once("FunctionCleaner", "normalize_tag_case", <<>>, <<>>, <<>>, "normalize_tag_case"),
         Once("FunctionCleaner", "fix_pt", <<>>, <<>>, <<>>, "fix_pt")>>

\* FunctionCleaner.cleanup: self.func(title) for the registered functions
FunctionCleaner_cleanup(e, title) ==
    CASE e.id = "collapse" -> Join(<<" ">>, SplitWs(title))
      [] e.id = "strip_dash" -> Strip(title, {"-"})
      [] e.id = "normalize_tag_case" -> normalize_tag_case(title)
      [] e.id = "fix_pt" -> Replace(title, <<"P", "T", ".">>, <<"p", "t", ".">>)

(***************************************************************************)
(* TitleNormalizer.cleanup: the driver loop.                               *)
(*                                                                         *)
(* A world w is what one step reads and writes: w.r the locals of the      *)
(* invocation (and its registry), w.heap the fields of the ArtistCleaner   *)
(* objects, w.rnorm_cache and w.lnorm_cache the two lru_cache tables.      *)
(***************************************************************************)
\* the identity of the cleaner object named name that invocation number gen
\* of caller p constructs: every TitleNormalizer builds its own objects
Object(p, gen, name) == <<p, gen, name>>

\* one ArtistCleaner object for every TitleNormalizer
ArtistObjectShared(p, gen) == Object(0, 0, "artist")

\* the object ArtistCleaner() returns at registration
ArtistObject(p, gen) == Object(p, gen, "artist")

\* the object behind registry entry e
ObjectOf(r, e) ==
    IF e.cls = "ArtistCleaner" THEN ArtistObject(r.p, r.gen) ELSE Object(r.p, r.gen, e.obj)

Context(w, e) ==
    [rnorm_cache |-> w.rnorm_cache, lnorm_cache |-> w.lnorm_cache, self |-> ObjectOf(w.r, e)]

\* cleaner.doSkip(cur_title, *args)
doSkip(cx, e, title) ==
    CASE e.cls \in {"RegexSuffixCleaner", "RecordsSuffixCleaner"} ->
            RegexSuffixCleaner_doSkip(cx, e, title)
      [] e.cls = "RegexPrefixCleaner" -> RegexCleaner_doSkip(e, title)
      [] OTHER -> FALSE

\* the entry after doSkip returned True: RegexCleaner.doSkip sets
\* remove_if_skipped on the object it skips for
AfterSkip(e) ==
    IF /\ e.cls \in {"RegexSuffixCleaner", "RecordsSuffixCleaner", "RegexPrefixCleaner"}
       /\ ~(e.cls # "RegexPrefixCleaner" /\ e.suffixes # <<>>)
       /\ e.contains # <<>>
    THEN [e EXCEPT !.remove_if_skipped = TRUE]
    ELSE e

\* doKeep returning True for every cleaner
doKeepAlways(heap, r, e) == TRUE

\* cleaner.doKeep()
doKeep(heap, r, e) ==
    IF e.cls = "ArtistCleaner" THEN ArtistCleaner_doKeep(heap[ObjectOf(r, e)]) ELSE FALSE

\* cleaner.cleanup(cur_title, *args): the returned title (Raised when the
\* call raises) and the heap after the call
cleanup(w, e, title) ==
    LET cx == Context(w, e)
    IN CASE e.cls = "FunctionCleaner" ->
               [title |-> FunctionCleaner_cleanup(e, title), heap |-> w.heap]
         [] e.cls = "SimpleSuffixCleaner" ->
               [title |-> SimpleSuffixCleaner_cleanup(cx, title, e.arg), heap |-> w.heap]
         [] e.cls = "SimplePrefixCleaner" ->
               [title |-> SimplePrefixCleaner_cleanup(cx, title, e.arg), heap |-> w.heap]
         [] e.cls = "RegexSuffixCleaner" ->
               [title |-> RegexSuffixCleaner_cleanup(e, title), heap |-> w.heap]
         [] e.cls = "RegexPrefixCleaner" ->
               [title |-> RegexPrefixCleaner_cleanup(e, title), heap |-> w.heap]
         [] e.cls = "RecordsSuffixCleaner" ->
               [title |-> RecordsSuffixCleaner_cleanup(cx, e, title), heap |-> w.heap]
         [] e.cls = "StartParenthesesCleaner" ->
               [title |-> StartParenthesesCleaner_cleanup(title), heap |-> w.heap]
         [] e.cls = "PairedCharCleaner" ->
               [title |-> PairedCharCleaner_cleanup(title), heap |-> w.heap]
         [] e.cls = "AlbumCleaner" ->
               [title |-> AlbumCleaner_cleanup(cx, title, e.arg), heap |-> w.heap]
         [] e.cls = "ArtistCleaner" ->
               LET res == ArtistCleaner_cleanup(cx, title, e.arg, w.heap[cx.self])
               IN [title |-> res.title, heap |-> [w.heap EXCEPT ![cx.self] = res.obj]]

\* Accepted without its second test: a candidate equal to the working title
\* counts as a change
AcceptedUnchanged(new_title, cur_title) == new_title # <<>>

\* Accepted without its first test: the empty candidate is taken
AcceptedEmpty(new_title, cur_title) == new_title # cur_title

\* if new_title and (new_title != cur_title)
Accepted(new_title, cur_title) == new_title # <<>> /\ new_title # cur_title

(***************************************************************************)
(* What a visit passes to rnorm and lnorm: the keys lru_cache stores       *)
(***************************************************************************)
\* the guard suffixes doSkip compares with: any() stops at the first match
SkipSuffixes(cx, e, title) ==
    IF e.cls \in {"RegexSuffixCleaner", "RecordsSuffixCleaner"}
    THEN {e.suffixes[k] : k \in {j \in DOMAIN e.suffixes :
                                    \A h \in 1..(j - 1) : ~endslike(cx, title, e.suffixes[h])}}
    ELSE {}

\* the connectives AlbumCleaner.cleanup compares with, the title t2 left by
\* the removal of the album suffix
AlbumConnectives(cx, t2) ==
    {ALBUM_CONNECTIVES[k] : k \in {j \in DOMAIN ALBUM_CONNECTIVES :
        \A h \in 1..(j - 1) :
            ~(/\ endslike(cx, t2, ALBUM_CONNECTIVES[h])
              /\ SimpleSuffixCleaner_cleanup(cx, t2, ALBUM_CONNECTIVES[h]) # <<>>)}}

\* the arguments of the rnorm calls of cleaner.cleanup(title, *args)
rnorm_args(w, e, title) ==
    LET cx == Context(w, e)
    IN CASE e.cls = "SimpleSuffixCleaner" -> {title, e.arg}
         [] e.cls = "SimplePrefixCleaner" -> {e.arg}
         [] e.cls = "RecordsSuffixCleaner" ->
               IF regex_search(e.id, RStrip(title, Punctuation)) = -1 THEN {title, e.arg} ELSE {}
         [] e.cls = "AlbumCleaner" ->
               IF e.arg = None THEN {}
               ELSE {e.arg}
                    \cup (IF startslike(cx, title, e.arg, {}) THEN {} ELSE {title})
                    \cup (IF ~startslike(cx, title, e.arg, {}) /\ endslike(cx, title, e.arg)
                          THEN LET t2 == SimpleSuffixCleaner_cleanup(cx, title, e.arg)
                               IN {t2} \cup AlbumConnectives(cx, t2)
                          ELSE {})
         [] e.cls = "ArtistCleaner" ->
               \* every form tried is normalized by startslike or by endslike;
               \* the first form always reaches endslike, which normalizes the title
               LET obj == w.heap[cx.self]
                   res == ArtistCleaner_cleanup(cx, title, e.arg, obj)
               IN {artist_forms(e.arg)[k] :
                      k \in {j \in 1..res.tried :
                                (j > 1 /\ ~obj.prefix_removed) \/ ~obj.suffix_removed}}
                  \cup (IF ~obj.suffix_removed THEN {title} ELSE {})
         [] OTHER -> {}

\* the arguments of the lnorm calls of cleaner.cleanup(title, *args)
lnorm_args(w, e, title) ==
    CASE e.cls \in {"SimplePrefixCleaner", "AlbumCleaner"} -> {title}
      [] e.cls = "ArtistCleaner" ->
            LET cx == Context(w, e)
                obj == w.heap[cx.self]
            IN IF ~obj.prefix_removed /\ ArtistCleaner_cleanup(cx, title, e.arg, obj).tried > 1
               THEN {title} ELSE {}
      [] OTHER -> {}

\* table with the keys (self, s), s in args, added; a call that raises
\* stores nothing
Cached(table, self, args, Wrapped(_)) ==
    [key \in DOMAIN table \cup {<<self, s>> : s \in {a \in args : Wrapped(a) # Raised}} |->
        IF key \in DOMAIN table THEN table[key] ELSE Wrapped(key[2])]

(***************************************************************************)
(* One visit of the for loop                                               *)
(***************************************************************************)
\* the entry the for loop is at
Current(r) == r.cleaners[r.i + 1]

\* the keys doSkip stores: the guard suffixes compared, and the title once
\* one of them is compared
SkipKeys(suffixes, title) == IF suffixes = {} THEN {} ELSE suffixes \cup {title}

\* the rnorm table after cleaner.doSkip(cur_title, *args)
SkipCache(w) ==
    Cached(w.rnorm_cache, Context(w, Current(w.r)).self,
           SkipKeys(SkipSuffixes(Context(w, Current(w.r)), Current(w.r), w.r.cur_title),
                    w.r.cur_title),
           rnorm_wrapped)

\* lines 300-302: doSkip returned True, the entry (skipped is the entry
\* after the call) is passed over, and is listed for removal when
\* remove_if_skipped is set and doKeep is False
Skipped(w, e, skipped, rc) ==
    [w EXCEPT
       !.rnorm_cache = rc,
       !.r = [w.r EXCEPT
          !.cleaners[w.r.i + 1] = skipped,
          !.to_del_indexes =
              IF skipped.remove_if_skipped /\ ~doKeep(w.heap, w.r, e)
              THEN Append(@, w.r.i) ELSE @,
          !.i = w.r.i + 1,
          !.last = [kind |-> "skip", i |-> w.r.i, candidate |-> <<>>]]]

\* the calls of the case normalizer's cleanup so far, the call of e counted
CaseCalls(r, e) == IF e.obj = "normalize_tag_case" THEN r.case_calls + 1 ELSE r.case_calls

\* lines 304-326: cleanup was called and gave res (its title is Raised when
\* the call raised); rc and lc are the cache tables after the call.
\* r.case_calls counts the calls of the case normalizer, r.calls lists the
\* entries whose cleanup was called, in the order of the calls, r.changed_by
\* holds the cleaners whose candidate was accepted (line 307 logs each).
Applied(w, e, res, rc, lc) ==
    IF res.title = Raised
    THEN [w EXCEPT
            !.lnorm_cache = lc,
            !.r = [w.r EXCEPT !.pc = "raised",
                              !.case_calls = CaseCalls(w.r, e),
                              !.calls = Append(@, e),
                              !.last = [kind |-> "raised", i |-> w.r.i, candidate |-> <<>>]]]
    ELSE IF Accepted(res.title, w.r.cur_title)
    THEN \* lines 306-314, 322-326
         [w EXCEPT
            !.heap = res.heap, !.rnorm_cache = rc, !.lnorm_cache = lc,
            !.r = [w.r EXCEPT
               !.cur_title = res.title,
               !.case_calls = CaseCalls(w.r, e),
               !.calls = Append(@, e),
               !.changed_by = @ \cup {e.obj},
               !.to_del_indexes = IF ~doKeep(res.heap, w.r, e) THEN Append(@, w.r.i) ELSE @,
               !.start_index = 0,
               !.pc = "del",
               !.last = [kind |-> "match", i |-> w.r.i, candidate |-> res.title]]]
    ELSE \* lines 316-323
         [w EXCEPT
            !.heap = res.heap, !.rnorm_cache = rc, !.lnorm_cache = lc,
            !.r = [w.r EXCEPT
               !.to_del_indexes = IF e.execute_once THEN Append(@, w.r.i) ELSE @,
               !.start_index = IF e.execute_once /\ @ = 0 THEN w.r.i ELSE @,
               !.i = w.r.i + 1,
               !.case_calls = CaseCalls(w.r, e),
               !.calls = Append(@, e),
               !.last = [kind |-> "nomatch", i |-> w.r.i, candidate |-> res.title]]]

\* The visit of registry entry number r.i (counted from 0) by the body of
\* the for loop (lines 297-326): the world after it.  r.pc is "for" while
\* the loop runs, "del" once it was left by break, "raised" when a cleaner
\* raised.  r.last records what the visit did.
Visit(w) ==
    IF doSkip(Context(w, Current(w.r)), Current(w.r), w.r.cur_title)
    THEN Skipped(w, Current(w.r), AfterSkip(Current(w.r)), SkipCache(w))
    ELSE Applied(w, Current(w.r), cleanup(w, Current(w.r), w.r.cur_title),
                 Cached(SkipCache(w), Context(w, Current(w.r)).self,
                        rnorm_args(w, Current(w.r), w.r.cur_title), rnorm_wrapped),
                 Cached(w.lnorm_cache, Context(w, Current(w.r)).self,
                        lnorm_args(w, Current(w.r), w.r.cur_title), lnorm_wrapped))

\* lines 332-333 left out: the entries listed for removal stay registered
DeleteNothing(cleaners, to_del_indexes) == cleaners

\* the entries not listed for removal, registered again in reverse order
DeleteIndexesReversed(cleaners, to_del_indexes) ==
    LET keep == {k \in DOMAIN cleaners : \A d \in DOMAIN to_del_indexes : to_del_indexes[d] # k - 1}
    IN [j \in 1..Cardinality(keep) |->
           cleaners[CHOOSE k \in keep : Cardinality({m \in keep : m >= k}) = j]]

RECURSIVE DeleteIndexesLowestFirst(_, _)
\* while to_del_indexes: del self.cleaners[to_del_indexes.popleft()]
DeleteIndexesLowestFirst(cleaners, to_del_indexes) ==
    IF to_del_indexes = <<>> THEN cleaners
    ELSE LET k == to_del_indexes[1]
         IN IF k >= Len(cleaners) THEN Tail(cleaners)
            ELSE DeleteIndexesLowestFirst(
                     SubSeq(cleaners, 1, k) \o SubSeq(cleaners, k + 2, Len(cleaners)),
                     Tail(to_del_indexes))

RECURSIVE DeleteIndexes(_, _)
\* while to_del_indexes: del self.cleaners[to_del_indexes.pop()]
DeleteIndexes(cleaners, to_del_indexes) ==
    IF to_del_indexes = <<>> THEN cleaners
    ELSE LET k == to_del_indexes[Len(to_del_indexes)]
         IN DeleteIndexes(SubSeq(cleaners, 1, k) \o SubSeq(cleaners, k + 2, Len(cleaners)),
                          SubSeq(to_del_indexes, 1, Len(to_del_indexes) - 1))

\* the removals, then a scan that goes on behind the entry that changed the
\* title instead of starting at start_index
RemovalsResume(r) ==
    LET left == DeleteIndexes(r.cleaners, r.to_del_indexes)
    IN [r EXCEPT !.cleaners = left,
                 !.to_del_indexes = <<>>,
                 !.i = IF r.i < Len(left) THEN r.i ELSE 0,
                 !.scans = IF left = <<>> THEN @ ELSE @ + 1,
                 !.pc = IF left = <<>> THEN "done" ELSE "for"]

\* lines 332-333 and the loop test of line 292 after them: the removals,
\* then the next scan from start_index, or the return when the registry
\* is empty
Removals(r) ==
    LET left == DeleteIndexes(r.cleaners, r.to_del_indexes)
    IN [r EXCEPT !.cleaners = left,
                 !.to_del_indexes = <<>>,
                 !.i = r.start_index,
                 !.scans = IF left = <<>> THEN @ ELSE @ + 1,
                 !.pc = IF left = <<>> THEN "done" ELSE "for"]

\* the else clause without its break: the while loop starts the for loop
\* again
ReturnedNoBreak(r) == [Removals(r) EXCEPT !.scans = r.scans]

\* lines 328-330 and 337: the for loop ran out of entries, its else clause
\* leaves the while loop and cleanup returns cur_title
Returned(r) == [r EXCEPT !.pc = "done"]

\* normalize_title_tag with one TitleNormalizer kept between the calls: a
\* later invocation works on the registry the previous one left
NewRunSameNormalizer(prev, title, artist, album, year) ==
    LET cleaners == IF prev.gen = 0 THEN TitleNormalizer_init(artist, album, year)
                    ELSE prev.cleaners
    IN [p |-> prev.p, gen |-> prev.gen + 1,
        title |-> title, artist |-> artist, album |-> album, year |-> year,
        cleaners |-> cleaners, registered |-> Len(cleaners),
        cur_title |-> title, to_del_indexes |-> <<>>, start_index |-> 0, i |-> 0,
        scans |-> 1, pc |-> IF cleaners = <<>> THEN "done" ELSE "for",
        case_calls |-> 0, changed_by |-> {}, calls |-> <<>>,
        last |-> [kind |-> "none", i |-> 0, candidate |-> <<>>]]

\* normalize_title_tag up to the first test of the while loop: the
\* normalizer is constructed in the current year, cleanup sets its locals.
\* prev is the caller's previous invocation (gen counts the invocations).
NewRun(prev, title, artist, album, year) ==
    LET cleaners == TitleNormalizer_init(artist, album, year)
    IN [p |-> prev.p, gen |-> prev.gen + 1,
        title |-> title, artist |-> artist, album |-> album, year |-> year,
        cleaners |-> cleaners, registered |-> Len(cleaners),
        cur_title |-> title, to_del_indexes |-> <<>>, start_index |-> 0, i |-> 0,
        scans |-> 1, pc |-> IF cleaners = <<>> THEN "done" ELSE "for",
        case_calls |-> 0, changed_by |-> {}, calls |-> <<>>,
        last |-> [kind |-> "none", i |-> 0, candidate |-> <<>>]]

\* the heap once ArtistCleaner.__init__ has run for the invocation r
NewHeap(heap, r) ==
    [o \in DOMAIN heap \cup {ArtistObject(r.p, r.gen)} |->
        IF o = ArtistObject(r.p, r.gen)
        THEN [prefix_removed |-> FALSE, suffix_removed |-> FALSE]
        ELSE heap[o]]

(***************************************************************************)
(* The inputs of the model                                                 *)
(***************************************************************************)
\* the longest title, in words
MaxWords == 2

\* the last year the clock of the model reaches
LastYear == 2017

\* the most invocations one caller makes
MaxCalls == 2

\* the scans after which the model stops a run (no run comes near it: a
\* run makes at most one scan more than its registry has entries)
MaxScans == 40

\* The words titles are made of: the artist, a word that starts like the
\* artist, a separator, a small word, a catalogued expression in
\* parentheses, a year, the album, the label word, a hashtag, and the empty
\* word (two words around it are two spaces apart; alone it is a blank
\* title).
Vocabulary ==
    {<<>>,
     <<"D", "r", "u">>,
     <<"D", "r", "u", "x">>,
     <<"-">>,
     <<"t", "h", "e">>,
     <<"(", "h", "d", ")">>,
     <<"2", "0", "1", "7">>,
     <<"A", "l", "b">>,
     <<"r", "e", "c", "o", "r", "d", "s">>,
     <<"#", "x">>}

Artists == {<<"D", "r", "u">>}

Albums == {None, <<"A", "l", "b">>}

Years == FIRST_YEAR..LastYear

\* the titles of at most MaxWords words of the set words, one space
\* between two of them
TitlesOf(words) ==
    {Join(<<" ">>, ws) : ws \in UNION {[1..n -> words] : n \in 0..MaxWords}}

Titles == TitlesOf(Vocabulary)

\* titles of more words: the artist before a word and a catalogued
\* expression, the artist at both ends, the artist at the start and "by"
\* the artist at the end, a word that ends with a hyphen, "by" the artist
\* at the start, a small word before "PT.", and a small word before a
\* catalogued expression of two words, a word that ends like a catalogued
\* expression, and two parenthesised groups at the two ends
LongTitles ==
    {<<"D", "r", "u", " ", "D", "r", "u", "x", " ", "(", "h", "d", ")">>,
     <<"D", "r", "u", " ", "D", "r", "u", "x", " ", "D", "r", "u">>,
     <<"D", "r", "u", " ", "D", "r", "u", "x", " ", "b", "y", " ", "D", "r", "u">>,
     <<"D", "r", "u", "x", "-", " ", "t", "h", "e">>,
     <<"b", "y", " ", "D", "r", "u", " ", "D", "r", "u", "x">>,
     <<"t", "h", "e", " ", "P", "T", ".">>,
     <<"t", "h", "e", " ", "o", "f", "f", "i", "c", "i", "a", "l", " ", "v", "i", "d", "e", "o">>,
     <<"D", "r", "u", "x", "h", "d">>,
     <<"(", "x", ")", " ", "D", "r", "u", "x", " ", "(", "y", ")">>}

\* titles of a word and the years the clock reaches
ClockTitles == TitlesOf({<<"D", "r", "u", "x">>, <<"t", "h", "e">>} \cup {Str(y) : y \in Years})

\* the titles of two callers at work at the same time
ConcTitles ==
    {<<"D", "r", "u", " ", "-">>,
     <<"D", "r", "u", "x", " ", "D", "r", "u">>,
     <<"t", "h", "e", " ", "(", "h", "d", ")">>}

(***************************************************************************)
(* The state machine                                                       *)
(***************************************************************************)
VARIABLES
    run,          \* run[p]: the invocation of normalize_title_tag caller p is in
    heap,         \* the fields of the ArtistCleaner objects
    rnorm_cache,  \* the table of lru_cache around rnorm
    lnorm_cache,  \* the table of lru_cache around lnorm
    year          \* datetime.datetime.today().year

vars == <<run, heap, rnorm_cache, lnorm_cache, year>>

World(p) ==
    [r |-> run[p], heap |-> heap, rnorm_cache |-> rnorm_cache, lnorm_cache |-> lnorm_cache]

NoRun(p) == [p |-> p, gen |-> 0]

\* caller 1 has called normalize_title_tag(title, artist, album)
InitOf(titles) ==
    /\ year \in Years
    /\ \E title \in titles, artist \in Artists, album \in Albums :
          run = [p \in {1} |-> NewRun(NoRun(p), title, artist, album, year)]
    /\ heap = NewHeap(<<>>, run[1])
    /\ rnorm_cache = <<>>
    /\ lnorm_cache = <<>>

Init == InitOf(Titles)

InitPure == InitOf(ClockTitles)

\* callers 1 and 2 have each called normalize_title_tag
InitConc ==
    /\ year \in Years
    /\ \E t1 \in ConcTitles, t2 \in ConcTitles, artist \in Artists, album \in Albums :
          run = [p \in {1, 2} |->
                    NewRun(NoRun(p), IF p = 1 THEN t1 ELSE t2, artist, album, year)]
    /\ heap = NewHeap(NewHeap(<<>>, run[1]), run[2])
    /\ rnorm_cache = <<>>
    /\ lnorm_cache = <<>>

\* the world w replaces the one caller p saw
Commit(p, w) ==
    /\ run' = [run EXCEPT ![p] = w.r]
    /\ heap' = w.heap
    /\ rnorm_cache' = w.rnorm_cache
    /\ lnorm_cache' = w.lnorm_cache

\* the body of the for loop for the next entry
VisitStep(p) ==
    /\ run[p].pc = "for"
    /\ run[p].i < Len(run[p].cleaners)
    /\ Commit(p, Visit(World(p)))
    /\ UNCHANGED year

\* doSkip returns True: the cleaner is passed over (lines 300-302)
Skip(p) ==
    /\ run[p].pc = "for"
    /\ run[p].i < Len(run[p].cleaners)
    /\ doSkip(Context(World(p), Current(run[p])), Current(run[p]), run[p].cur_title)
    /\ VisitStep(p)

\* doSkip returns False: cleanup is called, and its candidate is accepted
\* (break), or is not, or the call raises (lines 304-326)
Apply(p) ==
    /\ run[p].pc = "for"
    /\ run[p].i < Len(run[p].cleaners)
    /\ ~doSkip(Context(World(p), Current(run[p])), Current(run[p]), run[p].cur_title)
    /\ VisitStep(p)

\* the removals after a break, then the next scan
NextScan(p) ==
    /\ run[p].pc = "del"
    /\ run[p].scans < MaxScans
    /\ run' = [run EXCEPT ![p] = Removals(@)]
    /\ UNCHANGED <<heap, rnorm_cache, lnorm_cache, year>>

\* the for loop ran out of entries: its else clause leaves the while loop,
\* cleanup returns cur_title
Return(p) ==
    /\ run[p].pc = "for"
    /\ run[p].i >= Len(run[p].cleaners)
    /\ run' = [run EXCEPT ![p] = Returned(@)]
    /\ UNCHANGED <<heap, rnorm_cache, lnorm_cache, year>>

\* the caller calls normalize_title_tag again with the arguments of its
\* previous call: a new TitleNormalizer is constructed in the current year,
\* the objects of the previous one and the caches stay as they are
CallAgain(p) ==
    /\ run[p].pc \in {"done", "raised"}
    /\ run[p].gen < MaxCalls
    /\ run' = [run EXCEPT ![p] = NewRun(@, @.title, @.artist, @.album, year)]
    /\ heap' = NewHeap(heap, run'[p])
    /\ UNCHANGED <<rnorm_cache, lnorm_cache, year>>

\* the clock reaches the next year
NewYear ==
    /\ year < LastYear
    /\ year' = year + 1
    /\ UNCHANGED <<run, heap, rnorm_cache, lnorm_cache>>

Next == Skip(1) \/ Apply(1) \/ NextScan(1) \/ Return(1)

Spec == Init /\ [][Next]_vars

\* ENABLED <<Skip(1) \/ Apply(1)>>_vars written out: the for loop has an
\* entry to visit (doSkip returns True or it does not, and the visit
\* changes run[1].i or run[1].pc)
CanVisit(r) == r.pc = "for" /\ r.i < Len(r.cleaners)

\* WF_vars(Skip(1) \/ Apply(1)) with its ENABLED written out as CanVisit: a
\* behaviour in which the loop has an entry to visit from some point on
\* visits entries again and again
VisitFairness == []<>(~CanVisit(run[1])) \/ []<><<Skip(1) \/ Apply(1)>>_vars

\* the thread of the caller is scheduled: a step the caller can take is
\* taken
FairSpec == Spec /\ VisitFairness /\ WF_vars(NextScan(1)) /\ WF_vars(Return(1))

InitScan == InitOf(Titles \cup LongTitles)

\* one caller, the longer titles among its titles
SpecScan == InitScan /\ [][Next]_vars

\* an artist whose name ends with punctuation
LiteralArtists == {<<"D", "r", "u", "!", "!">>}

\* titles with that artist, or the artist without its punctuation, at one end
LiteralTitles ==
    {<<"D", "r", "u", " ", "D", "r", "u", "x">>,
     <<"D", "r", "u", "!", "!", " ", "D", "r", "u", "x">>,
     <<"D", "r", "u", "x", " ", "D", "r", "u", "!", "!">>,
     <<"D", "r", "u", "x", " ", "D", "r", "u">>,
     <<"D", "r", "u", "x", " ", "-", " ", "D", "r", "u", "!", "!">>}

InitLiteral ==
    /\ year \in Years
    /\ \E title \in LiteralTitles, artist \in LiteralArtists, album \in Albums :
          run = [p \in {1} |-> NewRun(NoRun(p), title, artist, album, year)]
    /\ heap = NewHeap(<<>>, run[1])
    /\ rnorm_cache = <<>>
    /\ lnorm_cache = <<>>

\* one caller, the artist's name ends with punctuation
SpecLiteral == InitLiteral /\ [][Next]_vars

NextPure == Skip(1) \/ Apply(1) \/ NextScan(1) \/ Return(1) \/ CallAgain(1) \/ NewYear

\* one caller that calls again and again while the years pass
SpecPure == InitPure /\ [][NextPure]_vars

NextConc == \E p \in {1, 2} : Skip(p) \/ Apply(p) \/ NextScan(p) \/ Return(p)

\* two callers, their steps interleaved in any order
SpecConc == InitConc /\ [][NextConc]_vars

(***************************************************************************)
(* sanitize.normalize_tag_case called on its own, loop by loop             *)
(***************************************************************************)
\* The words the strings given to normalize_tag_case are made of: small
\* words in lower and upper case, words that end with an apostrophe, a
\* colon, a dot, a hyphen, contractions, words with a hyphen or a
\* parenthesis at the start or inside, Roman numerals and words of Roman
\* letters and others.
CaseVocabulary ==
    {<<"t", "h", "e">>,
     <<"O", "F">>,
     <<"r", "o", "c", "k", "'">>,
     <<"x", ":">>,
     <<"T", ".">>,
     <<"f", "o", "o", "-">>,
     <<"-", "b", "a", "r">>,
     <<"a", "-", "b">>,
     <<"I", "'", "M">>,
     <<"M", "I", "'", "M">>,
     <<"V", "I">>,
     <<"V", "I", "A">>,
     <<"I", "I", "I", "-", "I", "I", "I">>,
     <<"x", "(", "I", "V", ")">>}

CaseTitles == TitlesOf(CaseVocabulary)

\* normalize_tag_case(s) has been called: old_words is computed, the loops
\* have not begun
CaseCall(p, s) ==
    [p |-> p, pc |-> "case", s |-> s, old_words |-> split_words(s),
     new_words |-> <<>>, popped |-> <<>>, to_join |-> <<>>, result |-> <<>>]

\* caller 1 has called sanitize.normalize_tag_case(s)
InitCase ==
    /\ year \in Years
    /\ \E s \in CaseTitles : run = [p \in {1} |-> CaseCall(p, s)]
    /\ heap = <<>>
    /\ rnorm_cache = <<>>
    /\ lnorm_cache = <<>>

\* one iteration of the case heuristic loop: a new word is appended for the
\* next old word (old_word[0] of an empty word raises IndexError); after
\* the last old word the join begins
CaseLoop(p) ==
    /\ run[p].pc = "case"
    /\ LET r == run[p]
           k == Len(r.new_words) + 1
       IN run' = [run EXCEPT ![p] =
                    IF k > Len(r.old_words) THEN [r EXCEPT !.pc = "join"]
                    ELSE IF r.old_words[k] = <<>> THEN [r EXCEPT !.pc = "raised",
                                                                !.result = Raised]
                    ELSE [r EXCEPT !.new_words =
                             Append(@, new_word(k - 1, r.old_words[k],
                                                IF k = 1 THEN <<>> ELSE r.old_words[k - 1]))]]
    /\ UNCHANGED <<heap, rnorm_cache, lnorm_cache, year>>

\* one iteration of the join loop: the first word of new_words is popped
\* and appended to to_join, after a space or not (popped keeps the words
\* popped so far)
JoinLoop(p) ==
    /\ run[p].pc = "join"
    /\ Len(run[p].popped) < Len(run[p].new_words)
    /\ LET r == run[p]
           w == r.new_words[Len(r.popped) + 1]
       IN run' = [run EXCEPT ![p] =
                    [r EXCEPT !.popped = Append(@, w),
                              !.to_join = Append(@, join_words(<<w>>, r.popped = <<>>))]]
    /\ UNCHANGED <<heap, rnorm_cache, lnorm_cache, year>>

\* new_words is empty: "".join(to_join) is returned
CaseReturn(p) ==
    /\ run[p].pc = "join"
    /\ Len(run[p].popped) = Len(run[p].new_words)
    /\ run' = [run EXCEPT ![p] = [@ EXCEPT !.pc = "returned",
                                           !.result = Join(<<>>, run[p].to_join)]]
    /\ UNCHANGED <<heap, rnorm_cache, lnorm_cache, year>>

NextCase == CaseLoop(1) \/ JoinLoop(1) \/ CaseReturn(1)

\* one caller of normalize_tag_case
SpecCase == InitCase /\ [][NextCase]_vars

(***************************************************************************)
(* A whole invocation as a function of its inputs                          *)
(***************************************************************************)
\* the step of the invocation of world w
StepWorld(w) ==
    IF w.r.pc = "del" THEN [w EXCEPT !.r = Removals(@)]
    ELSE IF w.r.i >= Len(w.r.cleaners) THEN [w EXCEPT !.r = Returned(@)]
    ELSE Visit(w)

RECURSIVE RunToEnd(_)
RunToEnd(w) == IF w.r.pc \in {"done", "raised"} THEN w ELSE RunToEnd(StepWorld(w))

\* normalize_title_tag(title, artist, album) called in the given year by a
\* caller of its own, nothing cached: the invocation when it has ended
Alone(title, artist, album, yr) ==
    LET r == NewRun(NoRun(0), title, artist, album, yr)
    IN RunToEnd([r |-> r, heap |-> NewHeap(<<>>, r),
                 rnorm_cache |-> <<>>, lnorm_cache |-> <<>>]).r

\* what the caller gets: the title returned, or Raised
Outcome(r) == IF r.pc = "raised" THEN Raised ELSE r.cur_title

\* the invocation has ended
Ended(r) == r.pc \in {"done", "raised"}

C2_NonEmpty ==
    /\ [](run[1].title # <<>> => run[1].cur_title # <<>>)
    /\ [][(/\ run'[1].last # run[1].last
           /\ run'[1].last.kind = "nomatch"
           /\ run'[1].last.candidate = <<>>)
          => run'[1].cur_title = run[1].cur_title]_vars

\* a cleaner has given the empty candidate for a title that is not empty
C2_Witness ==
    /\ run[1].title # <<>>
    /\ run[1].last.kind = "nomatch"
    /\ run[1].last.candidate = <<>>

\* C3: with the album absent normalize_title_tag does not raise, and
\* returns what it returns with an album that matches nothing.
C3_NoRaiseWithoutAlbum ==
    (run[1].album = None /\ Ended(run[1]))
    => /\ run[1].pc # "raised"
       /\ Outcome(run[1])
          = Outcome(Alone(run[1].title, run[1].artist, <<"Z", "z", "z">>, run[1].year))

\* the title is made of punctuation and whitespace only (or of nothing)
Malformed(title) == \A k \in DOMAIN title : title[k] \in Punctuation \cup Whitespace

\* C4: for an empty title, a title of whitespace or a title of punctuation,
\* with a string album, no cleaner raises and the run returns a string.
C4_MalformedNeverRaises ==
    (Malformed(run[1].title) /\ run[1].album # None)
    => /\ run[1].pc # "raised"
       /\ run[1].last.kind # "raised"

\* a run on a title of punctuation has returned, the case normalizer called
C4_Witness ==
    /\ Malformed(run[1].title)
    /\ run[1].title # <<>>
    /\ run[1].album # None
    /\ run[1].pc = "done"
    /\ run[1].case_calls = 1

\* C5: normalize_title_tag on its own result, with a registry of its own,
\* returns that result.
C5_Idempotent ==
    run[1].pc = "done"
    => Outcome(Alone(run[1].cur_title, run[1].artist, run[1].album, run[1].year))
       = run[1].cur_title

\* C6: when cleanup has returned, no cleaner left in the registry, called
\* once more on the title returned with the objects as they are, gives a
\* title that is neither empty nor the title returned.
C6_Fixpoint ==
    run[1].pc = "done"
    => \A k \in DOMAIN run[1].cleaners :
          \/ doSkip(Context(World(1), run[1].cleaners[k]), run[1].cleaners[k],
                    run[1].cur_title)
          \/ cleanup(World(1), run[1].cleaners[k], run[1].cur_title).title = Raised
          \/ ~Accepted(cleanup(World(1), run[1].cleaners[k], run[1].cur_title).title,
                       run[1].cur_title)

\* C7 as stated: an invocation returns what an invocation with the same
\* title, artist and album returns in any year of the clock.
C7_PureOfThreeStrings ==
    Ended(run[1])
    => \A y \in Years :
          Outcome(run[1]) = Outcome(Alone(run[1].title, run[1].artist, run[1].album, y))

\* C7: an invocation, whatever the caller has invoked before and whatever
\* the caches hold, returns what an invocation with the same title, artist
\* and album returns alone when its registry is constructed in the same
\* year.
C7_PureGivenTheYear ==
    Ended(run[1])
    => Outcome(run[1])
       = Outcome(Alone(run[1].title, run[1].artist, run[1].album, run[1].year))

\* a second invocation has returned, in a year in which the result is not
\* the result of every year
C7_Witness ==
    /\ run[1].gen = 2
    /\ run[1].pc = "done"
    /\ \E y \in Years :
          Outcome(Alone(run[1].title, run[1].artist, run[1].album, y)) # run[1].cur_title

\* the cleaners other than the case normalizer left the title alone
OnlyCase(r) == r.changed_by \subseteq {"normalize_tag_case"}

\* C8 as stated: a run that returns has called the case normalizer exactly
\* once, and when no other cleaner changed the title it returns the
\* case-normalized raw title.
C8_CaseOnceAndResult ==
    /\ run[1].case_calls <= 1
    /\ run[1].pc = "done"
       => /\ run[1].case_calls = 1
          /\ OnlyCase(run[1]) => run[1].cur_title = normalize_tag_case(run[1].title)

\* C8: a run that returns has called the case normalizer exactly once, and
\* when no other cleaner changed the title it returns the case-normalized
\* raw title, or the raw title when its case-normalized form is empty.
C8_CaseOnceAndResultUnlessEmpty ==
    /\ run[1].case_calls <= 1
    /\ run[1].pc = "done"
       => /\ run[1].case_calls = 1
          /\ OnlyCase(run[1])
             => run[1].cur_title = IF normalize_tag_case(run[1].title) = <<>>
                                   THEN run[1].title
                                   ELSE normalize_tag_case(run[1].title)

\* a run in which only the case normalizer changed the title has returned
C8_Witness ==
    /\ run[1].pc = "done"
    /\ run[1].changed_by = {"normalize_tag_case"}
    /\ run[1].case_calls = 1

\* C9: a run never makes more scans of the registry than the registry had
\* entries when the run started.
C9_ScansBounded == run[1].scans <= run[1].registered

\* a run that made several scans has returned
C9_Witness == run[1].pc = "done" /\ run[1].scans > 3

\* C10: each of two invocations whose steps are interleaved returns what it
\* returns alone; the ArtistCleaner objects are those of one invocation; the
\* two caches hold, for a key, the value of the wrapped helper.
C10_Interleaved ==
    /\ \A p \in DOMAIN run :
          Ended(run[p])
          => Outcome(run[p])
             = Outcome(Alone(run[p].title, run[p].artist, run[p].album, run[p].year))
    /\ \A key \in DOMAIN rnorm_cache : rnorm_cache[key] = rnorm_wrapped(key[2])
    /\ \A key \in DOMAIN lnorm_cache : lnorm_cache[key] = lnorm_wrapped(key[2])

\* caller 1 has returned a title it changed while caller 2 is in a later
\* scan of its own, and the cache holds keys of both
C10_Witness ==
    /\ DOMAIN run = {1, 2}
    /\ run[1].pc = "done"
    /\ run[1].changed_by # {}
    /\ run[2].pc = "for"
    /\ run[2].scans > 1
    /\ \A p \in {1, 2} : \E key \in DOMAIN rnorm_cache : key[1][1] = p

(***************************************************************************)
(* Properties of sanitize.normalize_tag_case                               *)
(***************************************************************************)
\* the punctuation a capital follows: any but the apostrophe
StrongPunctuation == Punctuation \ {"'"}

\* old_words[k] of the call r is a small word
SmallWord(r, k) == Lower(r.old_words[k]) \in TAG_LOWERCASE_WORDS

\* old_words[k] of the call r is not the first token and the token before
\* it does not end with strong punctuation
AfterPlainWord(r, k) ==
    k > 1 /\ r.old_words[k - 1][Len(r.old_words[k - 1])] \notin StrongPunctuation

\* C11: normalize_tag_case lowercases a small word exactly when it is not
\* the first token and the token before it does not end with strong
\* punctuation; a small word that is the first token or follows strong
\* punctuation is not lowercased.
C11_SmallWords ==
    \A k \in DOMAIN run[1].new_words :
        SmallWord(run[1], k) =>
            (run[1].new_words[k] = Lower(run[1].old_words[k])) = AfterPlainWord(run[1], k)

\* the call has returned; an upper-case small word after a word that ends
\* with an apostrophe was lowercased, and the small word the string begins
\* with was not
C11_Witness ==
    /\ run[1].pc = "returned"
    /\ run[1].old_words = <<<<"r", "o", "c", "k", "'">>, <<"O", "F">>>>
    /\ run[1].new_words[2] = <<"o", "f">>
    /\ run[1].result = <<"R", "o", "c", "k", "'", " ", "o", "f">>

\* C12: normalize_tag_case turns every token equal to "I'M" into "I'm",
\* whatever its position in the string and whichever branch handled it.
C12_IAmEverywhere ==
    \A k \in DOMAIN run[1].new_words :
        run[1].old_words[k] = <<"I", "'", "M">> => run[1].new_words[k] = <<"I", "'", "m">>

RECURSIVE WordStarts(_, _)
\* the indexes in old_words of the tokens a whitespace-separated word of the
\* string begins with: words are the words not yet counted, n the tokens
\* counted so far
WordStarts(words, n) ==
    IF words = <<>> THEN {}
    ELSE {n + 1} \cup WordStarts(Tail(words), n + Len(split_sep_char(Head(words))))

\* C13: when the tokens are rejoined only a fragment produced by splitting a
\* token at "-" follows the token before it without a space; two tokens
\* that whitespace separated in the input, a token that begins or ends with
\* "-" among them, are separated by one space in the output.
C13_SpaceBetweenWords ==
    \A k \in DOMAIN run[1].to_join :
        (k > 1 /\ k \in WordStarts(SplitWs(run[1].s), 0)) =>
            /\ Head(run[1].to_join[k]) = " "
            /\ Tail(run[1].to_join[k]) = run[1].new_words[k]

\* old_words[k] of the call r is claimed by a rule before the one of the
\* Roman numerals: it follows "." or "-" and starts with a capital, or holds
\* a ".", or starts with "[", "(" or "-", or has an apostrophe at index 1,
\* or is a small word after a plain word
ClaimedEarlier(r, k) ==
    LET old_word == r.old_words[k]
    IN \/ /\ k > 1
          /\ r.old_words[k - 1][Len(r.old_words[k - 1])] \in {".", "-"}
          /\ old_word[1] \in UpperSet
       \/ "." \in Range(old_word)
       \/ old_word[1] \in {"[", "(", "-"}
       \/ (Len(old_word) > 1 /\ old_word[2] = "'" /\ old_word[1] # "'")
       \/ (SmallWord(r, k) /\ AfterPlainWord(r, k))

\* the characters of old_words[k] other than punctuation are all upper-case
\* Roman-numeral letters
RomanToken(r, k) ==
    \A c \in Range(r.old_words[k]) : c \in Punctuation \/ c \in {"I", "V", "X", "L", "C", "D", "M"}

\* C14 as stated: normalize_tag_case leaves unchanged every token that,
\* stripped of punctuation, consists only of upper-case Roman-numeral
\* letters and is not claimed by an earlier rule, and capitalizes as an
\* ordinary word a token that holds any other letter.
C14_RomanUnchanged ==
    \A k \in DOMAIN run[1].new_words :
        ~ClaimedEarlier(run[1], k) =>
            run[1].new_words[k] = IF RomanToken(run[1], k) THEN run[1].old_words[k]
                                  ELSE Capitalize(run[1].old_words[k])

\* C14 amended: a token of Roman-numeral letters not claimed by an earlier
\* rule is left as it is but for an "I'M" inside it, which becomes "I'm"; a
\* token that holds any other letter is capitalized as an ordinary word.
C14_RomanUnchangedButIAm ==
    \A k \in DOMAIN run[1].new_words :
        ~ClaimedEarlier(run[1], k) =>
            run[1].new_words[k] =
                IF RomanToken(run[1], k)
                THEN Replace(run[1].old_words[k], <<"I", "'", "M">>, <<"I", "'", "m">>)
                ELSE Capitalize(run[1].old_words[k])

\* the call has returned: a Roman numeral was left unchanged, the Roman
\* letters around an "I'M" too, and "VIA" was capitalized
C14_Witness ==
    /\ run[1].pc = "returned"
    /\ \E k \in DOMAIN run[1].old_words :
          run[1].old_words[k] = <<"V", "I">> /\ run[1].new_words[k] = <<"V", "I">>
    /\ \E k \in DOMAIN run[1].old_words :
          /\ run[1].old_words[k] \in {<<"V", "I", "A">>, <<"M", "I", "'", "M">>}
          /\ run[1].new_words[k] \in {<<"V", "i", "a">>, <<"M", "I", "'", "m">>}

(***************************************************************************)
(* Properties of the scans of TitleNormalizer.cleanup                      *)
(***************************************************************************)
\* C15: every scan of the registry either ends with at least one entry
\* removed from the registry, or leaves the registry unchanged and is the
\* last scan: a scan left by break is followed by removals that shorten
\* the registry, and a step that ends the run removes nothing.
C15_ScanRemovesOrIsLast ==
    /\ [](run[1].pc = "del" =>
            Len(DeleteIndexes(run[1].cleaners, run[1].to_del_indexes)) < Len(run[1].cleaners))
    /\ [][(run[1].pc = "for" /\ run'[1].pc = "done") => run'[1].cleaners = run[1].cleaners]_vars

\* the entry whose candidate was just accepted is the ArtistCleaner, and no
\* suffix form of the artist has matched so far: its doKeep keeps it
\* registered
ArtistKept(r) ==
    /\ r.cleaners[r.i + 1].cls = "ArtistCleaner"
    /\ ~heap[ArtistObject(r.p, r.gen)].suffix_removed

\* C15 amended: every scan of the registry either ends with at least one
\* entry removed, or was ended by a change of the ArtistCleaner while no
\* suffix form has matched (the cleaner stays registered and another scan
\* follows), or leaves the registry unchanged and is the last scan.
C15_ScanRemovesUnlessArtistKept ==
    /\ [](run[1].pc = "del" =>
            \/ Len(DeleteIndexes(run[1].cleaners, run[1].to_del_indexes)) < Len(run[1].cleaners)
            \/ ArtistKept(run[1]))
    /\ [][(run[1].pc = "for" /\ run'[1].pc = "done") => run'[1].cleaners = run[1].cleaners]_vars

\* a second scan was ended by the artist's prefix removal with nothing
\* listed for removal; and another scan was ended with entries to remove
C15_Witness ==
    /\ run[1].pc = "del"
    /\ run[1].scans = 2
    /\ run[1].to_del_indexes = <<>>
    /\ run[1].title = <<"D", "r", "u", " ", "D", "r", "u", "x", " ", "(", "h", "d", ")">>
    /\ run[1].cur_title = <<"D", "r", "u", "x">>

\* the entry the for loop of run r is at does not apply to the working
\* title: doSkip returns True, or the candidate of cleanup is empty or the
\* working title itself
NotApplicable(r) ==
    \/ doSkip(Context(World(r.p), Current(r)), Current(r), r.cur_title)
    \/ ~Accepted(cleanup(World(r.p), Current(r), r.cur_title).title, r.cur_title)

Key(e) == <<e.cls, e.id, e.arg, e.obj>>

\* the entries registered at construction that run r has removed
Retired(r) ==
    {e \in Range(TitleNormalizer_init(r.artist, r.album, r.year)) :
        \A k \in DOMAIN r.cleaners : Key(r.cleaners[k]) # Key(e)}

\* C17: a cleaner is removed from the registry only when it can no longer
\* contribute: once retired (it was skipped, attempted once, or matched) it
\* would not change any working title that occurs later in the same run
\* (it would be skipped, or its candidate would be empty or the title).
C17_RetiredCannotContribute ==
    \A e \in Retired(run[1]) :
        \/ doSkip(Context(World(1), e), e, run[1].cur_title)
        \/ ~Accepted(cleanup(World(1), e, run[1].cur_title).title, run[1].cur_title)

\* C18: each accepted title change yields a title whose length is at most
\* the length of the title it replaces.
C18_NeverLonger ==
    [][run'[1].cur_title # run[1].cur_title =>
          Len(run'[1].cur_title) <= Len(run[1].cur_title)]_vars

\* C19: a cleaner registered with execute_once has its cleanup invoked at
\* most once during a run, whether its candidate was a change, unchanged or
\* empty: no such entry occurs twice among the calls of the run, and once
\* its cleanup was called the loop never visits it again (neither its doSkip
\* nor its cleanup is consulted).
C19_OnceCalledOnce ==
    /\ [](\A a, b \in DOMAIN run[1].calls :
             (a # b /\ run[1].calls[a].execute_once) =>
                 Key(run[1].calls[a]) # Key(run[1].calls[b]))
    /\ [][(/\ run[1].pc = "for"
           /\ run[1].i < Len(run[1].cleaners)
           /\ Current(run[1]).execute_once
           /\ run'[1] # run[1]) =>
              \A a \in DOMAIN run[1].calls : Key(run[1].calls[a]) # Key(Current(run[1]))]_vars

\* a run of several scans has returned: an execute_once cleaner changed the
\* title, another was called and changed nothing, and scans followed
C19_Witness ==
    /\ run[1].pc = "done"
    /\ run[1].scans > 2
    /\ "normalize_tag_case" \in run[1].changed_by
    /\ \E a \in DOMAIN run[1].calls :
          /\ run[1].calls[a].execute_once
          /\ run[1].calls[a].obj \notin run[1].changed_by

\* the ArtistCleaner is an entry of the registry of run r
ArtistRegistered(r) == \E k \in DOMAIN r.cleaners : r.cleaners[k].cls = "ArtistCleaner"

\* the string s begins with the artist and a space
ArtistAtStart(s, artist) == StartsWith(s, artist \o <<" ">>)

\* the string s ends with a space and the artist
ArtistAtEnd(s, artist) == EndsWith(s, <<" ">> \o artist)

\* C20: the artist cleaner stays registered after a prefix removal and
\* retires only once a suffix form has matched; the prefix and the suffix
\* removal are independent events, whichever is applied first the other is
\* still applied later when it matches: a title that carries the artist at
\* both ends has lost both occurrences when the run returns.
C20_BothEndsRemoved ==
    /\ (run[1].pc \in {"for", "done"} /\ ~ArtistRegistered(run[1])) =>
           heap[ArtistObject(run[1].p, run[1].gen)].suffix_removed
    /\ (/\ run[1].pc = "done"
        /\ ArtistAtStart(run[1].title, run[1].artist)
        /\ ArtistAtEnd(run[1].title, run[1].artist)) =>
           /\ ~ArtistAtStart(run[1].cur_title, run[1].artist)
           /\ ~ArtistAtEnd(run[1].cur_title, run[1].artist)

(***************************************************************************)
(* Properties of the registry                                              *)
(***************************************************************************)
\* the place of the entry e in the registry cleaners, 0 when it has none
Place(cleaners, e) ==
    IF \E k \in DOMAIN cleaners : Key(cleaners[k]) = Key(e)
    THEN CHOOSE k \in DOMAIN cleaners : Key(cleaners[k]) = Key(e)
    ELSE 0

\* C21: during a run the registry never gains an entry: a step leaves its
\* entries as they are, or makes it shorter, every entry it holds after the
\* step it held before, and the entries that survive keep their relative
\* registration order.
C21_RegistryShrinks ==
    [][\/ /\ Len(run'[1].cleaners) = Len(run[1].cleaners)
          /\ \A a \in DOMAIN run[1].cleaners :
                Key(run'[1].cleaners[a]) = Key(run[1].cleaners[a])
       \/ /\ Len(run'[1].cleaners) < Len(run[1].cleaners)
          /\ \A a \in DOMAIN run'[1].cleaners :
                Place(run[1].cleaners, run'[1].cleaners[a]) > 0
          /\ \A a, b \in DOMAIN run'[1].cleaners :
                a < b => Place(run[1].cleaners, run'[1].cleaners[a])
                            < Place(run[1].cleaners, run'[1].cleaners[b])]_vars

\* a scan after the first is under way, on a registry that has lost some
\* of its entries and kept others
C21_Witness ==
    /\ run[1].pc = "for"
    /\ run[1].scans > 1
    /\ Len(run[1].cleaners) < run[1].registered
    /\ Len(run[1].cleaners) > 1

\* the entries of cleaners whose index (counted from 0) is not in marked,
\* in their order
Unmarked(cleaners, marked) ==
    LET keep == {k \in DOMAIN cleaners : k - 1 \notin marked}
    IN [j \in 1..Cardinality(keep) |->
           cleaners[CHOOSE k \in keep : Cardinality({m \in keep : m <= k}) = j]]

\* C22: the removal step at the end of a scan deletes exactly the registry
\* entries marked during that scan and no other entry, and the list of
\* pending removals is empty at the start of every scan.
C22_RemovesExactlyMarked ==
    /\ []((run[1].pc = "for" /\ run[1].i = 0 /\ run[1].last.kind \in {"none", "match"}) =>
              run[1].to_del_indexes = <<>>)
    /\ [][(run[1].pc = "del" /\ run'[1].pc # "del") =>
              /\ run'[1].cleaners = Unmarked(run[1].cleaners, Range(run[1].to_del_indexes))
              /\ run'[1].to_del_indexes = <<>>]_vars

\* the removals after a scan that marked several entries, the first and
\* others, have been made
C22_Witness ==
    /\ run[1].pc = "for"
    /\ run[1].i = 0
    /\ run[1].scans = 2
    /\ run[1].registered - Len(run[1].cleaners) > 2
    /\ run[1].cleaners[1].id # "collapse"

(***************************************************************************)
(* Properties of the cleaners                                              *)
(***************************************************************************)
\* the characters between words
Separators == Punctuation \cup Whitespace

\* new is old without an ending that is, but for case and the separators
\* around it, one of the strings of forms
RemovedFromEnd(old, new, forms) ==
    /\ Len(new) < Len(old)
    /\ new = SubSeq(old, 1, Len(new))
    /\ Strip(Lower(From(old, Len(new))), Separators) \in forms

\* new is old without a beginning that is, but for case and the separators
\* around it, one of the strings of forms
RemovedFromStart(old, new, forms) ==
    /\ Len(new) < Len(old)
    /\ new = From(old, Len(old) - Len(new))
    /\ Strip(Lower(Slice(old, 0, Len(old) - Len(new))), Separators) \in forms

\* "by <artist>", in lower case
ByForm(artist) == {Lower(BY_ \o artist)}

\* the artist and its variants, in lower case
PlainForms(artist) ==
    {Lower(artist_variants(artist)[k]) : k \in DOMAIN artist_variants(artist)}

\* the step is a change of the working title by the ArtistCleaner
ArtistChange ==
    /\ run[1].pc = "for"
    /\ run[1].i < Len(run[1].cleaners)
    /\ Current(run[1]).cls = "ArtistCleaner"
    /\ run'[1].cur_title # run[1].cur_title

\* C23 as stated: the artist cleaner removes the form "by <artist>" only
\* from the start of the title, never from its end; what it removes from
\* the end is the plain artist string or one of its variants.
C23_ByArtistOnlyAtStart ==
    [][ArtistChange =>
          /\ ~RemovedFromEnd(run[1].cur_title, run'[1].cur_title, ByForm(run[1].artist))
          /\ \/ RemovedFromStart(run[1].cur_title, run'[1].cur_title,
                                 ByForm(run[1].artist) \cup PlainForms(run[1].artist))
             \/ RemovedFromEnd(run[1].cur_title, run'[1].cur_title, PlainForms(run[1].artist))]_vars

\* C23 amended: the artist cleaner removes the form "by <artist>" only from
\* the end of the title (it is a suffix-only form), never from its start;
\* the plain artist string and its variants are removed from either end.
C23_ByArtistOnlyAtEnd ==
    [][ArtistChange =>
          /\ ~RemovedFromStart(run[1].cur_title, run'[1].cur_title, ByForm(run[1].artist))
          /\ \/ RemovedFromEnd(run[1].cur_title, run'[1].cur_title,
                               ByForm(run[1].artist) \cup PlainForms(run[1].artist))
             \/ RemovedFromStart(run[1].cur_title, run'[1].cur_title,
                                 PlainForms(run[1].artist))]_vars

\* the ArtistCleaner has just removed "by Dru" from the end of the title
C23_Witness ==
    /\ run[1].pc = "del"
    /\ run[1].cleaners[run[1].i + 1].cls = "ArtistCleaner"
    /\ run[1].title = <<"D", "r", "u", " ", "D", "r", "u", "x", " ", "b", "y", " ", "D", "r", "u">>
    /\ run[1].cur_title = <<"D", "r", "u", " ", "D", "r", "u", "x">>

\* C24: the fix-up of "PT." is never applied to a working title before the
\* case normalizer has been applied in the same run, and the case normalizer
\* is not applied after the fix-up: among the calls of a run every call of
\* the fix-up comes after a call of the case normalizer, and none before one.
C24_FixUpAfterCase ==
    \A a \in DOMAIN run[1].calls :
        run[1].calls[a].id = "fix_pt" =>
            /\ \E b \in 1..(a - 1) : run[1].calls[b].id = "normalize_tag_case"
            /\ \A b \in (a + 1)..Len(run[1].calls) : run[1].calls[b].id # "normalize_tag_case"

\* a run has returned in which the case normalizer changed the title and,
\* in a later scan, the fix-up changed it too
C24_Witness ==
    /\ run[1].pc = "done"
    /\ {"normalize_tag_case", "fix_pt"} \subseteq run[1].changed_by
    /\ run[1].cur_title = <<"T", "h", "e", " ", "p", "t", ".">>

\* the classes of the filler-phrase cleaners
FillerClasses == {"SimpleSuffixCleaner", "SimplePrefixCleaner"}

\* the expression of the filler-phrase entry e matches the end (a suffix
\* cleaner) or the start (a prefix cleaner) of the title
FillerMatches(e, title) ==
    IF e.cls = "SimpleSuffixCleaner"
    THEN endslike(Context(World(1), e), title, e.arg)
    ELSE startslike(Context(World(1), e), title, e.arg, Separators)

\* C25: the filler-phrase cleaners are registered longest expression first
\* in the suffix half and in the prefix half of the catalog (no expression
\* comes before a strictly longer one), and whenever several registered
\* filler expressions match the same end of the title the one removed is
\* the longest.
C25_LongestFillerRemoved ==
    /\ [](\A a, b \in DOMAIN run[1].cleaners :
             (/\ a < b
              /\ run[1].cleaners[a].cls \in FillerClasses
              /\ run[1].cleaners[b].cls = run[1].cleaners[a].cls) =>
                 Len(run[1].cleaners[a].arg) >= Len(run[1].cleaners[b].arg))
    /\ [][(/\ run[1].pc = "for"
           /\ run[1].i < Len(run[1].cleaners)
           /\ Current(run[1]).cls \in FillerClasses
           /\ run'[1].cur_title # run[1].cur_title) =>
              \A k \in DOMAIN run[1].cleaners :
                  (/\ run[1].cleaners[k].cls = Current(run[1]).cls
                   /\ FillerMatches(run[1].cleaners[k], run[1].cur_title)) =>
                      Len(run[1].cleaners[k].arg) <= Len(Current(run[1]).arg)]_vars

\* the literal is at the end of the title (trailing punctuation aside) and
\* the character before it, if there is one, is a separator
SuffixAtBoundary(title, literal) ==
    LET core == RStrip(title, Punctuation)
        before == Len(core) - Len(literal)
    IN before >= 0 /\ (before = 0 \/ core[before] \in Separators)

\* the literal is at the start of the title (leading punctuation aside) and
\* the character after it, if there is one, is a separator
PrefixAtBoundary(title, literal) ==
    LET core == LStrip(title, Punctuation)
    IN Len(core) >= Len(literal)
       /\ (Len(core) = Len(literal) \/ core[Len(literal) + 1] \in Separators)

\* C26: a literal prefix or suffix is removed only at a word boundary: the
\* matched text is followed (a prefix) or preceded (a suffix) by a separator
\* character or by the end of the string, so a literal that is the beginning
\* or the ending of a longer word is not removed.  Stated for the
\* filler-phrase cleaners.
C26_RemovedAtWordBoundary ==
    [][(/\ run[1].pc = "for"
        /\ run[1].i < Len(run[1].cleaners)
        /\ Current(run[1]).cls \in FillerClasses
        /\ run'[1].cur_title # run[1].cur_title) =>
           IF Current(run[1]).cls = "SimpleSuffixCleaner"
           THEN SuffixAtBoundary(run[1].cur_title, Current(run[1]).arg)
           ELSE PrefixAtBoundary(run[1].cur_title, Current(run[1]).arg)]_vars

\* the number of "(" still open after the first k characters of the title,
\* or -1 once a ")" came with none open
RECURSIVE OpenAfter(_, _)
OpenAfter(title, k) ==
    IF k = 0 THEN 0
    ELSE LET before == OpenAfter(title, k - 1)
         IN IF before < 0 THEN -1
            ELSE IF title[k] = "(" THEN before + 1
            ELSE IF title[k] = ")" THEN before - 1
            ELSE before

\* every "(" of the title has its ")" after it and conversely
Balanced(title) == OpenAfter(title, Len(title)) = 0

\* the first "(" of the title is closed by its last character
EnclosedInOnePair(title) ==
    /\ Len(title) >= 2
    /\ title[1] = "("
    /\ title[Len(title)] = ")"
    /\ \A k \in 1..(Len(title) - 1) : OpenAfter(title, k) > 0

\* C27: the paired-character cleaner removes an outer pair of parentheses
\* only if the whole title is enclosed in one matching pair; a title whose
\* parentheses are balanced is still balanced after the cleaner.
C27_ParenthesesStayBalanced ==
    [][(/\ run[1].pc = "for"
        /\ run[1].i < Len(run[1].cleaners)
        /\ Current(run[1]).cls = "PairedCharCleaner"
        /\ Balanced(run[1].cur_title)) =>
           /\ Balanced(run'[1].cur_title)
           /\ (run'[1].cur_title # run[1].cur_title => EnclosedInOnePair(run[1].cur_title))]_vars

(***************************************************************************)
(* Properties of the case normalizer as a whole                            *)
(***************************************************************************)

\* C28: normalize_tag_case is idempotent: applied to its own output it
\* returns that output unchanged, also for tokens that begin or end with
\* "-" or contain "(".
C28_CaseIdempotent ==
    run[1].pc = "returned" => normalize_tag_case(run[1].result) = run[1].result

\* the title with its whitespace deleted and its letters folded to lower case
Folded(s) == Lower(SelectSeq(s, LAMBDA c : c \notin Whitespace))

\* C30: normalize_tag_case changes only letter case and whitespace: its
\* output, with whitespace deleted and case folded, equals its input treated
\* likewise.
C30_OnlyCaseAndWhitespace ==
    run[1].pc = "returned" => Folded(run[1].result) = Folded(run[1].s)

\* a call has returned a string that differs from its input both in the
\* case of a letter and in a space put between two fragments of one token
C30_Witness ==
    /\ run[1].pc = "returned"
    /\ run[1].s = <<"x", "(", "I", "V", ")">>
    /\ run[1].result = <<"X", " ", "(", "I", "V", ")">>

\* the forms the artist cleaner looks for, in lower case, without the
\* separators at their ends
LiteralForms(artist) ==
    {Strip(form, Separators) : form \in ByForm(artist) \cup PlainForms(artist)}

\* C29: a literal prefix or suffix cleaner deletes from the title exactly
\* the matched literal, together with the separators next to it that lclean
\* or rclean trim, and no other character of the title, also when the
\* literal ends with punctuation.  Stated for the artist cleaner.
C29_DeletesExactlyTheLiteral ==
    [][ArtistChange =>
          \/ RemovedFromStart(run[1].cur_title, run'[1].cur_title, LiteralForms(run[1].artist))
          \/ RemovedFromEnd(run[1].cur_title, run'[1].cur_title, LiteralForms(run[1].artist))]_vars

====
